---- MODULE Spec2Model ----
(***************************************************************************)
(* CheckDroid gateway (app.py): login with permission-set enforcement,     *)
(* and the two-phase update workflow (field patch, then status transition) *)
(* of /api/registration/update and /api/registration/confirm.              *)
(*                                                                         *)
(* One browser session talks to the Flask application; every handler runs  *)
(* to completion and leaves its response in lastOp, which the browser      *)
(* receives before it sends the next request.  The registry's answers to   *)
(* the calls a handler makes are inputs of the handler's action.  The      *)
(* calls a handler issued are recorded, in order, in lastOp.calls.         *)
(***************************************************************************)
EXTENDS Integers, Sequences, FiniteSets, TLC

\* Largest program id the registry knows.
MaxPid == 2

ProgramIds == 1..MaxPid

\* Python's None, JSON null, an absent dictionary key read with .get().
None == "None"

REQUIRED_PERMISSIONS ==
    { "registration:attribute.update",
      "registration:attribute:financial.update",
      "registration:personal.update",
      "registration:status:markAsValidated.update" }

\* A permission the registry may grant that CheckDroid does not require.
OtherPermission == "program:metric.read"

(***************************************************************************)
(* Strings.  The handlers strip, right-strip and percent-encode the        *)
(* strings they are given; the operators below do so on the strings that   *)
(* occur in the model.                                                     *)
(***************************************************************************)
UrlForms == {"", " ", "urlA", "urlA/ ", "urlB"}
UsernameForms == {"", "caseworker", "cw@example.org", " cw@example.org "}
PasswordForms == {"", "secret"}
ReasonForms == {"", " ", "name changed"}
ReferenceIdForms == {"", "ref/1"}

\* str.strip()
strip(s) ==
    CASE s = " " -> ""
      [] s = "urlA/ " -> "urlA/"
      [] s = " cw@example.org " -> "cw@example.org"
      [] OTHER -> s

\* str.rstrip("/")
rstrip_slash(s) ==
    CASE s = "urlA/" -> "urlA"
      [] OTHER -> s

\* "@" in s
contains_at(s) == s \in {"cw@example.org", " cw@example.org "}

\* urllib.parse.quote(s, safe="")
quote(s) ==
    CASE s = "ref/1" -> "ref%2F1"
      [] OTHER -> s

(***************************************************************************)
(* JSON values of a request's programId: null, a number, a string of       *)
(* digits or any other string.  v is the number (or the number the digits  *)
(* spell).                                                                 *)
(***************************************************************************)
ProgramIdForms ==
    { [t |-> "null", v |-> 0], [t |-> "text", v |-> 0], [t |-> "digits", v |-> 1] }
    \cup { [t |-> "int", v |-> n] : n \in 0..(MaxPid + 1) }

\* Python truthiness of the value: `not program_id` is ~truthy(program_id).
truthy(x) ==
    CASE x.t = "null" -> FALSE
      [] x.t = "int" -> x.v # 0
      [] OTHER -> TRUE

\* int(x) raises ValueError for a string that is no number, TypeError for None.
int_raises(x) == x.t \in {"null", "text"}
int_of(x) == x.v

(***************************************************************************)
(* The registry's answers.  A call either fails at transport level (the    *)
(* requests library raises) or answers with a status and a body; the body  *)
(* names the call and the status it answers.                               *)
(***************************************************************************)
Statuses == {200, 202, 204, 500}

Body(kind, st) == [of |-> kind, status |-> st]
NoBody == Body("none", 0)

Raised(kind) == [raised |-> TRUE, status_code |-> 0, body |-> NoBody]
Answer(kind, st) == [raised |-> FALSE, status_code |-> st, body |-> Body(kind, st)]

Responses(kind) == {Raised(kind)} \cup {Answer(kind, st) : st \in Statuses}

\* The token the registry at base_url issues.
TokenOf(base_url) == IF base_url = "urlA" THEN "tokA" ELSE "tokB"

\* A program's permission list in the login answer: null or a list.
PermLists ==
    { [null |-> TRUE, list |-> {}],
      [null |-> FALSE, list |-> {}],
      [null |-> FALSE, list |-> REQUIRED_PERMISSIONS \ {"registration:status:markAsValidated.update"}],
      [null |-> FALSE, list |-> REQUIRED_PERMISSIONS],
      [null |-> FALSE, list |-> REQUIRED_PERMISSIONS \cup {OtherPermission}] }

\* The keys of the permission map: program ids as JSON object keys.
ProgramKeys == {ToString(p) : p \in ProgramIds}

\* The map with a key that is no number, holding every required permission.
WithTextKey(perms) ==
    [k \in DOMAIN perms \cup {"x"} |->
        IF k = "x" THEN [null |-> FALSE, list |-> REQUIRED_PERMISSIONS] ELSE perms[k]]

\* The permission maps of the login answer.
PermissionMaps ==
    LET maps == UNION {[K -> PermLists] : K \in SUBSET ProgramKeys}
    IN  maps \cup {WithTextKey(perms) : perms \in maps}

LoginStatuses == {200, 201, 400, 401, 500}

LoginAnswer(st, tok, perms) ==
    [raised |-> FALSE, status_code |-> st, access_token_general |-> tok,
     permissions |-> perms]

LoginResponses(base_url) ==
    { [raised |-> TRUE, status_code |-> 0, access_token_general |-> None,
       permissions |-> <<>>] }
    \cup { LoginAnswer(st, None, <<>>) : st \in LoginStatuses \ {201} }
    \cup { LoginAnswer(201, tok, perms) :
             tok \in {None, TokenOf(rstrip_slash(base_url))}, perms \in PermissionMaps }

(***************************************************************************)
(* Registry calls, as recorded in lastOp.calls.                            *)
(***************************************************************************)
Call(kind, base_url, program_id, ref, body, token, res) ==
    [kind |-> kind, base_url |-> base_url, program_id |-> program_id, ref |-> ref,
     body |-> body, token |-> token, res |-> res]

\* A handler's response.
Result(http, ok, error, status, details, redirect) ==
    [http |-> http, ok |-> ok, error |-> error, status |-> status,
     details |-> details, redirect |-> redirect]

VARIABLES
    cfg,      \* system_config.json: [url121]
    session,  \* the browser's server-side session
    lastOp,   \* the request last handled, the calls it issued and its response
    registry, \* the registry's listing of registrations, in ascending id order
    fetch     \* the invocation of fetch_new_registrations_121 in progress

vars == <<cfg, session, lastOp, registry, fetch>>

DEFAULT_CONFIG == [url121 |-> ""]

\* session.clear(): no key is set.
EmptySession == [token121 |-> None, program_ids |-> {}, selected_program_id |-> {}]

\* `returned` is what login_121 returned to the /login handler.
NothingReturned == [token |-> None, program_ids |-> {}]

Op(op, request, calls, result) ==
    [op |-> op, request |-> request, calls |-> calls, result |-> result,
     returned |-> NothingReturned, retry |-> FALSE, registrations |-> <<>>,
     programs |-> <<>>]

Idle == Op("idle", <<>>, <<>>, Result(0, TRUE, None, 0, NoBody, None))

\* login_required: the wrapped handler runs only with a truthy token121.
login_required_any(s) == TRUE
login_required(s) == s.token121 # None

RedirectToLogin == Result(302, TRUE, None, 0, NoBody, "login")

(***************************************************************************)
(* login_121                                                               *)
(***************************************************************************)
\* int(pid_str) succeeds
is_int_key(k) == \E p \in 0..(MaxPid + 1) : ToString(p) = k
int_key(k) == CHOOSE p \in 0..(MaxPid + 1) : ToString(p) = k

\* perms = perm_list or []
perms_or_empty(perm_list) == IF perm_list.null THEN {} ELSE perm_list.list

\* all(req in perms for req in REQUIRED_PERMISSIONS)
has_all_required_any(perms) == \E req \in REQUIRED_PERMISSIONS : req \in perms
has_all_required(perms) == \A req \in REQUIRED_PERMISSIONS : req \in perms

allowed_program_ids(permissions_by_program) ==
    { int_key(k) :
        k \in { pid_str \in DOMAIN permissions_by_program :
                  /\ has_all_required(perms_or_empty(permissions_by_program[pid_str]))
                  /\ is_int_key(pid_str) } }

LoginReturn(token, program_ids, error, calls) ==
    [token |-> token, program_ids |-> program_ids, error |-> error, calls |-> calls]

\* Wrong email/password
invalid_credentials_only_401(status_code) == status_code = 401
invalid_credentials(status_code) == status_code \in {400, 401}

\* User logged in, but has no programs with the full permission set
no_allowed_programs_unchecked(program_ids) == FALSE
no_allowed_programs(program_ids) == program_ids = {}

login_121(base_url, username, password, res) ==
    IF base_url = ""
    THEN LoginReturn(None, {}, "System not configured: url121 is missing.", <<>>)
    ELSE
      LET call == Call("login", rstrip_slash(base_url), 0, "",
                       [username |-> username, password |-> password], None, res)
      IN  IF res.raised
          THEN LoginReturn(None, {}, "Unable to reach login server. Please try again later.", <<call>>)
          ELSE IF invalid_credentials(res.status_code)
          THEN LoginReturn(None, {}, "Invalid email or password.", <<call>>)
          ELSE IF res.status_code # 201
          THEN LoginReturn(None, {}, "Login failed. Please contact support.", <<call>>)
          ELSE IF no_allowed_programs(allowed_program_ids(res.permissions))
          THEN LoginReturn(None, {}, "You do not have access to any programs with validation permissions in CheckDroid.", <<call>>)
          ELSE LoginReturn(res.access_token_general, allowed_program_ids(res.permissions), None, <<call>>)

(***************************************************************************)
(* The /login handler (POST): the session it leaves and its response.      *)
(***************************************************************************)
login_session_cleared(s, ret) ==
    IF ret.error # None
    THEN EmptySession
    ELSE [s EXCEPT !.token121 = ret.token, !.program_ids = ret.program_ids]

login_session(s, ret) ==
    IF ret.error # None
    THEN s
    ELSE [s EXCEPT !.token121 = ret.token, !.program_ids = ret.program_ids]

login_result(form, ret) ==
    IF strip(form.username) = "" \/ ~contains_at(strip(form.username))
    THEN Result(200, FALSE, "Please enter a valid e-mail address.", 0, NoBody, None)
    ELSE IF form.password = ""
    THEN Result(200, FALSE, "Password is required.", 0, NoBody, None)
    ELSE IF ret.error # None
    THEN Result(200, FALSE, ret.error, 0, NoBody, None)
    ELSE Result(302, TRUE, None, 0, NoBody, "index")

\* The form is checked before login_121 is called.
login_form_ok(form) ==
    /\ strip(form.username) # ""
    /\ contains_at(strip(form.username))
    /\ form.password # ""

Login ==
    /\ lastOp.op = "idle"
    /\ \E form \in [username : UsernameForms, password : PasswordForms] :
         IF ~login_form_ok(form)
         THEN /\ lastOp' = Op("login", form, <<>>,
                              login_result(form, LoginReturn(None, {}, None, <<>>)))
              /\ UNCHANGED <<cfg, session>>
         ELSE \E res \in LoginResponses(cfg.url121) :
                LET ret == login_121(cfg.url121, strip(form.username), form.password, res)
                IN  /\ session' = login_session(session, ret)
                    /\ lastOp' = [Op("login", form, ret.calls, login_result(form, ret))
                                    EXCEPT !.returned = [token |-> ret.token,
                                                         program_ids |-> ret.program_ids]]
                    /\ UNCHANGED cfg
    /\ UNCHANGED <<registry, fetch>>

\* /logout
Logout ==
    /\ lastOp.op = "idle"
    /\ session' = EmptySession
    /\ lastOp' = Op("logout", <<>>, <<>>, RedirectToLogin)
    /\ UNCHANGED <<cfg, registry, fetch>>

\* /config (POST)
Config ==
    /\ lastOp.op = "idle"
    /\ \E url121 \in UrlForms :
         /\ cfg' = [cfg EXCEPT !.url121 = rstrip_slash(strip(url121))]
         /\ lastOp' = Op("config", [url121 |-> url121], <<>>,
                         Result(302, TRUE, None, 0, NoBody, "config"))
    /\ UNCHANGED <<session, registry, fetch>>

(***************************************************************************)
(* Update requests: the JSON body of /api/registration/update and          *)
(* /api/registration/confirm.                                              *)
(***************************************************************************)
Fields == {"fullName", "phoneNumber"}

\* payload.get("updates") or {}: a mapping of field name to value or null.
UpdateForms ==
    { [k \in {} |-> None],
      [k \in {"fullName"} |-> "Ann"],
      [k \in {"fullName"} |-> None],
      [k \in Fields |-> IF k = "fullName" THEN "Ann" ELSE None] }

Payloads ==
    [programId : ProgramIdForms, referenceId : ReferenceIdForms,
     updates : UpdateForms, reason : ReasonForms]

Handled(calls, result) == [calls |-> calls, result |-> result]

ApiError(http, error) == Result(http, FALSE, error, 0, NoBody, None)
ApiOk == Result(200, TRUE, None, 0, NoBody, None)

\* The status-transition call of both handlers.
status_call(base_url, program_id, reference_id, token, res2) ==
    Call("status", base_url, program_id, reference_id,
         [status |-> "validated", dryRun |-> "false"], token, res2)

(***************************************************************************)
(* /api/registration/update                                                *)
(***************************************************************************)
\* Only the fields that are not None are sent.
data_updates(updates) ==
    [k \in {f \in DOMAIN updates : updates[f] # None} |-> updates[k]]

update_patch_body(updates, reason) ==
    [data |-> data_updates(updates), reason |-> IF reason # "" THEN reason ELSE None]

update_patch_accepted_all == {200, 204, 500}
update_patch_accepted == {200, 204}
update_status_accepted == {200, 204}

update_calls(payload, s, base_url, res1, res2) ==
    LET pid == int_of(payload.programId)
        c1 == Call("patch", base_url, pid, quote(payload.referenceId),
                   update_patch_body(payload.updates, strip(payload.reason)),
                   s.token121, res1)
        c2 == status_call(base_url, pid, payload.referenceId, s.token121, res2)
    IN  IF res1.raised
        THEN Handled(<<c1>>, ApiError(502, "Failed to reach 121 API. Check url121 / network."))
        ELSE IF res1.status_code \notin update_patch_accepted
        THEN Handled(<<c1>>, Result(502, FALSE, "Failed to update registration in 121",
                                    res1.status_code, res1.body, None))
        ELSE IF res2.raised
        THEN Handled(<<c1, c2>>, ApiError(502, "Data updated but failed to validate status in 121."))
        ELSE IF res2.status_code \notin update_status_accepted
        THEN Handled(<<c1, c2>>, Result(502, FALSE, "Failed to mark registration as validated in 121",
                                        res2.status_code, res2.body, None))
        ELSE Handled(<<c1, c2>>, ApiOk)

\* Only allow programs in the user's session
update_allowed_any(program_id_int, s) == TRUE
update_allowed(program_id_int, s) == program_id_int \in s.program_ids

api_registration_update(payload, s, c, res1, res2) ==
    IF ~login_required(s)
    THEN Handled(<<>>, RedirectToLogin)
    ELSE IF ~truthy(payload.programId) \/ payload.referenceId = ""
    THEN Handled(<<>>, ApiError(400, "Missing programId or referenceId in request body."))
    ELSE IF int_raises(payload.programId)
    THEN Handled(<<>>, ApiError(400, "programId must be an integer."))
    ELSE IF ~update_allowed(int_of(payload.programId), s)
    THEN Handled(<<>>, ApiError(403, "You are not allowed to update this program."))
    ELSE IF rstrip_slash(c.url121) = "" \/ s.token121 = None
    THEN Handled(<<>>, ApiError(500, "121 configuration or session token missing."))
    ELSE update_calls(payload, s, rstrip_slash(c.url121), res1, res2)

(***************************************************************************)
(* /api/registration/confirm                                               *)
(***************************************************************************)
confirm_patch_body(updates, reason) == [data |-> updates, reason |-> reason]

confirm_patch_accepted == {200, 204}
confirm_status_accepted_all == {200, 202, 204, 500}
confirm_status_accepted == {200, 202, 204}

\* 2) Status change -> validated; `before` are the calls already issued.
confirm_status(payload, s, base_url, before, res2) ==
    LET c2 == status_call(base_url, int_of(payload.programId), payload.referenceId,
                          s.token121, res2)
    IN  IF res2.raised
        THEN Handled(Append(before, c2), ApiError(502, "Failed to reach 121 API for status update."))
        ELSE IF res2.status_code \notin confirm_status_accepted
        THEN Handled(Append(before, c2),
                     Result(res2.status_code, FALSE, "121 API status change responded with",
                            res2.status_code, res2.body, None))
        ELSE Handled(Append(before, c2), ApiOk)

\* 1) Optional PATCH data + reason (only if there are field updates)
confirm_calls(payload, s, base_url, res1, res2) ==
    LET c1 == Call("patch", base_url, int_of(payload.programId), quote(payload.referenceId),
                   confirm_patch_body(payload.updates, strip(payload.reason)),
                   s.token121, res1)
    IN  IF DOMAIN payload.updates = {}
        THEN confirm_status(payload, s, base_url, <<>>, res2)
        ELSE IF res1.raised
        THEN Handled(<<c1>>, ApiError(502, "Failed to reach 121 API for update."))
        ELSE IF res1.status_code \notin confirm_patch_accepted
        THEN Handled(<<c1>>, Result(res1.status_code, FALSE, "121 API update responded with",
                                    res1.status_code, res1.body, None))
        ELSE confirm_status(payload, s, base_url, <<c1>>, res2)

confirm_allowed_any(program_id, s) == TRUE
confirm_allowed(program_id, s) == program_id \in s.program_ids

api_registration_confirm(payload, s, c, res1, res2) ==
    IF ~login_required(s)
    THEN Handled(<<>>, RedirectToLogin)
    ELSE IF ~truthy(payload.programId) \/ payload.referenceId = ""
    THEN Handled(<<>>, ApiError(400, "Missing programId or referenceId."))
    ELSE IF strip(payload.reason) = ""
    THEN Handled(<<>>, ApiError(400, "Reason is required."))
    ELSE IF int_raises(payload.programId)
    THEN Handled(<<>>, ApiError(400, "programId must be an integer."))
    ELSE IF ~confirm_allowed(int_of(payload.programId), s)
    THEN Handled(<<>>, ApiError(403, "You are not allowed to update this program."))
    ELSE IF rstrip_slash(c.url121) = "" \/ s.token121 = None
    THEN Handled(<<>>, ApiError(500, "121 configuration or session token missing."))
    ELSE confirm_calls(payload, s, rstrip_slash(c.url121), res1, res2)

\* The handler of either endpoint.
Handle(op, payload, res1, res2) ==
    IF op = "update"
    THEN api_registration_update(payload, session, cfg, res1, res2)
    ELSE api_registration_confirm(payload, session, cfg, res1, res2)

\* One submission to either endpoint, with the registry's answers.  A
\* request that is rejected before the first call reads no answer.
Submit(op, payload, retry) ==
    LET rejected == Handle(op, payload, Raised("patch"), Raised("status"))
    IN  /\ IF rejected.calls = <<>>
           THEN lastOp' = [Op(op, payload, <<>>, rejected.result) EXCEPT !.retry = retry]
           ELSE \E res1 \in Responses("patch"), res2 \in Responses("status") :
                   LET h == Handle(op, payload, res1, res2)
                   IN  lastOp' = [Op(op, payload, h.calls, h.result) EXCEPT !.retry = retry]
        /\ UNCHANGED <<cfg, session, registry, fetch>>

Update ==
    /\ lastOp.op = "idle"
    /\ \E payload \in Payloads : Submit("update", payload, FALSE)

Confirm ==
    /\ lastOp.op = "idle"
    /\ \E payload \in Payloads : Submit("confirm", payload, FALSE)

\* The messages that report a failed status transition after the field patch.
StatusFailureErrors ==
    { "Data updated but failed to validate status in 121.",
      "Failed to mark registration as validated in 121",
      "Failed to reach 121 API for status update.",
      "121 API status change responded with" }

\* The caller's retry of a partial failure: the browser receives the response
\* and submits the same request again, with no field updates.
Resubmit ==
    /\ lastOp.op \in {"update", "confirm"}
    /\ lastOp.result.error \in StatusFailureErrors
    /\ Len(lastOp.calls) = 2
    /\ Submit(lastOp.op, [lastOp.request EXCEPT !.updates = [k \in {} |-> None]], TRUE)

\* /api/select-program
api_select_program(pid, s) ==
    IF ~login_required(s) \/ int_raises(pid)
    THEN s
    ELSE [s EXCEPT !.selected_program_id = {int_of(pid)}]

api_select_program_result(pid, s) ==
    IF ~login_required(s)
    THEN RedirectToLogin
    ELSE IF int_raises(pid)
    THEN ApiError(400, "Invalid program_id")
    ELSE ApiOk

SelectProgram ==
    /\ lastOp.op = "idle"
    /\ \E pid \in ProgramIdForms :
         /\ session' = api_select_program(pid, session)
         /\ lastOp' = Op("select-program", [program_id |-> pid], <<>>,
                         api_select_program_result(pid, session))
    /\ UNCHANGED <<cfg, registry, fetch>>

(***************************************************************************)
(* The registrations listing and fetch_new_registrations_121.              *)
(*                                                                         *)
(* The registry lists the registrations of a program in ascending id       *)
(* order, PageLen to a page (the model's size of the page the code asks    *)
(* for with limit = 100).  One iteration of the code's loop is one step:   *)
(* the registry may append registrations between two page requests.        *)
(***************************************************************************)
\* Most registrations the registry lists.
MaxRecords == 4

\* Registrations on a page.
PageLen == 2

\* Largest page number an invocation may request in the model.
MaxPages == 3

RecordStatuses == {"new", "NEW", "validated"}

\* str.lower()
lower(s) ==
    CASE s = "NEW" -> "new"
      [] OTHER -> s

Registration(id, status) == [id |-> id, status |-> status]

\* The listings of at most n registrations, ids ascending.
Registries(n) ==
    UNION { { [i \in 1..k |-> Registration(i, st[i])] : st \in [1..k -> RecordStatuses] } :
              k \in 0..n }

\* An optional number of the pagination metadata: {} when the key is missing.
Missing == {}
meta_get(field, default) == IF field = Missing THEN default ELSE CHOOSE x \in field : TRUE

Meta(current_page, total_pages) == [currentPage |-> current_page, totalPages |-> total_pages]

ListAnswer(st, data, meta) == [raised |-> FALSE, status_code |-> st, data |-> data, meta |-> meta]
ListRaised == [raised |-> TRUE, status_code |-> 0, data |-> <<>>, meta |-> Meta(Missing, Missing)]
NoAnswer == ListAnswer(0, <<>>, Meta(Missing, Missing))

\* What the registry lists on a page, and its page count.
PageOf(listing, page) ==
    SubSeq(listing, (page - 1) * PageLen + 1,
           IF page * PageLen < Len(listing) THEN page * PageLen ELSE Len(listing))
TotalPages(listing) == (Len(listing) + PageLen - 1) \div PageLen

\* The registry's answer to a page request when all is well.
HonestAnswer(listing, page) ==
    ListAnswer(200, PageOf(listing, page), Meta({page}, {TotalPages(listing)}))

\* The metadata of an answer whose page numbers are stale, wrong or missing.
MetaForms == [currentPage : {Missing, {1}, {2}}, totalPages : {Missing, {1}, {2}}]

ListFailureStatuses == {404, 500}

\* Every answer to a page request: a transport failure, a failure status,
\* the page with its metadata, the page with other metadata.
ListAnswers(listing, page) ==
    {ListRaised}
    \cup {ListAnswer(st, <<>>, Meta(Missing, Missing)) : st \in ListFailureStatuses}
    \cup {HonestAnswer(listing, page)}
    \cup {ListAnswer(200, PageOf(listing, page), m) : m \in MetaForms}

NoException == [type |-> None, page |-> 0, status_code |-> 0]
Exception(type, page, status_code) == [type |-> type, page |-> page, status_code |-> status_code]

FetchIdle ==
    [pc |-> "idle", base_url |-> "", token |-> None, program_id |-> 0, page |-> 1,
     all_new |-> <<>>, calls |-> <<>>, last |-> NoAnswer, existing |-> 0,
     honest |-> TRUE, exception |-> NoException]

\* The call: page = 1, all_new = [] (lines 113-116).
fetch_start(base_url, token, program_id, listing) ==
    [FetchIdle EXCEPT !.pc = "running", !.base_url = rstrip_slash(base_url),
                      !.token = token, !.program_id = program_id,
                      !.existing = Len(listing)]

\* if res.status_code != 200: raise RuntimeError
page_failed_5xx(status_code) == status_code >= 500
page_failed(status_code) == status_code # 200

\* str(reg.get("status", "")).lower() == "new"
is_new_exact(reg) == reg.status = "new"
is_new(reg) == lower(reg.status) = "new"

\* if current_page >= total_pages: break
last_page_strict(current_page, total_pages) == current_page > total_pages
last_page(current_page, total_pages) == current_page >= total_pages

\* page += 1
next_page_skip(page) == page + 2
next_page(page) == page + 1

list_call(f, res) ==
    Call("list", f.base_url, f.program_id, "",
         [page |-> f.page, limit |-> PageLen, sortBy |-> "id:ASC"], f.token,
         [raised |-> res.raised, status_code |-> res.status_code, body |-> NoBody])

\* One iteration of the loop (lines 118-152), the registry answering res.
\* requests.get raises, without a request, for a URL with no scheme.
fetch_page(f, res, listing) ==
    IF f.base_url = ""
    THEN [f EXCEPT !.pc = "raised", !.exception = Exception("MissingSchema", f.page, 0)]
    ELSE
      LET g == [f EXCEPT !.calls = Append(f.calls, list_call(f, res)), !.last = res,
                         !.honest = f.honest /\ res = HonestAnswer(listing, f.page)]
      IN  IF res.raised
          THEN [g EXCEPT !.pc = "raised",
                         !.exception = Exception("RequestException", f.page, 0)]
          ELSE IF page_failed(res.status_code)
          THEN [g EXCEPT !.pc = "raised",
                         !.exception = Exception("RuntimeError", f.page, res.status_code)]
          ELSE
            LET all_new == f.all_new \o SelectSeq(res.data, is_new)
                total_pages == meta_get(res.meta.totalPages, 1)
                current_page == meta_get(res.meta.currentPage, f.page)
            IN  IF last_page(current_page, total_pages)
                THEN [g EXCEPT !.pc = "returned", !.all_new = all_new]
                ELSE [g EXCEPT !.all_new = all_new, !.page = next_page(f.page)]

(***************************************************************************)
(* /api/registrations                                                      *)
(***************************************************************************)
\* request.args.get("program_id", type=int): None unless the value is a number.
args_get_int_missing(x) == int_raises(x) \/ int_of(x) = 0

registrations_allowed_any(program_id, s) == TRUE
registrations_allowed(program_id, s) == program_id \in s.program_ids

\* The checks before the fetch (lines 237-250): the response, or none (ok).
api_registrations_check(x, s) ==
    IF ~login_required(s)
    THEN RedirectToLogin
    ELSE IF args_get_int_missing(x)
    THEN ApiError(400, "Missing program_id")
    ELSE IF ~registrations_allowed(int_of(x), s)
    THEN ApiError(403, "Not allowed for this program")
    ELSE ApiOk

\* reg["programId"] = reg.get("programId", program_id)
full_record(r, program_id) == [id |-> r.id, status |-> r.status, programId |-> program_id]

full_records(new_regs, program_id) ==
    [i \in 1..Len(new_regs) |-> full_record(new_regs[i], program_id)]

\* The response once the fetch has returned or raised (lines 252-274).
api_registrations_response(request, f) ==
    IF f.pc = "raised"
    THEN Op("registrations", request, f.calls,
            ApiError(502, "Failed to fetch registrations from 121"))
    ELSE [Op("registrations", request, f.calls, ApiOk)
            EXCEPT !.registrations = full_records(f.all_new, f.program_id)]

Pending == Result(0, FALSE, None, 0, NoBody, None)

\* The request arrives: it is rejected, or the fetch starts.
ApiRegistrations ==
    /\ lastOp.op = "idle"
    /\ fetch.pc = "idle"
    /\ \E x \in ProgramIdForms :
         LET check == api_registrations_check(x, session)
         IN  IF check # ApiOk
             THEN /\ lastOp' = Op("registrations", [program_id |-> x], <<>>, check)
                  /\ UNCHANGED fetch
             ELSE /\ lastOp' = Op("registrations", [program_id |-> x], <<>>, Pending)
                  /\ fetch' = fetch_start(cfg.url121, session.token121, int_of(x), registry)
    /\ UNCHANGED <<cfg, session, registry>>

\* One page request and its answer.
FetchPage ==
    /\ fetch.pc = "running"
    /\ fetch.page <= MaxPages
    /\ \E res \in ListAnswers(registry, fetch.page) :
         fetch' = fetch_page(fetch, res, registry)
    /\ UNCHANGED <<cfg, session, lastOp, registry>>

\* The fetch is over: the handler answers.
ApiRegistrationsReturn ==
    /\ fetch.pc \in {"returned", "raised"}
    /\ lastOp' = api_registrations_response(lastOp.request, fetch)
    /\ fetch' = FetchIdle
    /\ UNCHANGED <<cfg, session, registry>>

\* The registry appends a registration while an invocation is in progress.
RegistryAppend ==
    /\ fetch.pc = "running"
    /\ Len(registry) < MaxRecords
    /\ \E st \in RecordStatuses :
         registry' = Append(registry, Registration(Len(registry) + 1, st))
    /\ UNCHANGED <<cfg, session, lastOp, fetch>>

(***************************************************************************)
(* get_program_121, /api/programs and /validate                            *)
(***************************************************************************)
\* The titlePortal of a program in the registry: its first value.
RegistryTitle(program_id) == IF program_id % 2 = 1 THEN "Cash" ELSE "aid"

\* f"Program {pid}"
FallbackTitle(program_id) == "Program " \o ToString(program_id)

\* The place of title.lower() in the order of strings.
title_lower_key(title) ==
    CASE title = "aid" -> 1
      [] title = "Cash" -> 2
      [] OTHER -> 3 + (CHOOSE p \in 0..(MaxPid + 1) : FallbackTitle(p) = title)

\* The registry's answer to a program lookup; title None: no titlePortal.
ProgramAnswer(st, title) == [raised |-> FALSE, status_code |-> st, title |-> title]
ProgramRaised == [raised |-> TRUE, status_code |-> 0, title |-> None]

ProgramAnswers(program_id) ==
    {ProgramRaised, ProgramAnswer(500, None), ProgramAnswer(200, None),
     ProgramAnswer(200, RegistryTitle(program_id))}

program_call(base_url, token, program_id, res) ==
    Call("program", rstrip_slash(base_url), program_id, "", None, token,
         [raised |-> res.raised, status_code |-> res.status_code, body |-> NoBody])

\* get_program_121: the calls it makes, whether it raises, the title it loads.
\* requests.get raises, without a request, for a URL with no scheme.
get_program_121(base_url, token, program_id, res) ==
    IF rstrip_slash(base_url) = ""
    THEN [calls |-> <<>>, raises |-> TRUE, title |-> None]
    ELSE [calls |-> <<program_call(base_url, token, program_id, res)>>,
          raises |-> res.raised \/ res.status_code # 200,
          title |-> res.title]

\* next(iter(title_dict.values()), fallback), or the fallback of the except branch
program_title(loaded, program_id) ==
    IF loaded.raises \/ loaded.title = None
    THEN FallbackTitle(program_id)
    ELSE loaded.title

Program(id, title) == [id |-> id, title |-> title]

\* The session's program ids in the order of the list.
RECURSIVE id_list(_)
id_list(ids) ==
    IF ids = {}
    THEN <<>>
    ELSE LET least == CHOOSE p \in ids : \A q \in ids : p <= q
         IN  <<least>> \o id_list(ids \ {least})

\* list.sort(key=...): stable.
RECURSIVE sort_by_title(_)
sort_by_title(programs) ==
    IF programs = <<>>
    THEN <<>>
    ELSE LET n == Len(programs)
             sorted == sort_by_title(SubSeq(programs, 1, n - 1))
             x == programs[n]
             before == SelectSeq(sorted, LAMBDA y : title_lower_key(y.title) <= title_lower_key(x.title))
             after == SelectSeq(sorted, LAMBDA y : title_lower_key(y.title) > title_lower_key(x.title))
         IN  before \o <<x>> \o after

RECURSIVE concat(_)
concat(seqs) == IF seqs = <<>> THEN <<>> ELSE Head(seqs) \o concat(Tail(seqs))

\* /api/programs: one lookup for each program id of the session.
api_programs(s, c, answers) ==
    IF ~login_required(s)
    THEN Op("programs", <<>>, <<>>, RedirectToLogin)
    ELSE
      LET ids == id_list(s.program_ids)
          loaded == [i \in 1..Len(ids) |->
                       get_program_121(c.url121, s.token121, ids[i], answers[ids[i]])]
          programs == [i \in 1..Len(ids) |-> Program(ids[i], program_title(loaded[i], ids[i]))]
      IN  [Op("programs", <<>>, concat([i \in 1..Len(ids) |-> loaded[i].calls]), ApiOk)
             EXCEPT !.programs = sort_by_title(programs)]

ApiPrograms ==
    /\ lastOp.op = "idle"
    /\ \E answers \in [session.program_ids -> UNION {ProgramAnswers(p) : p \in session.program_ids}] :
         /\ \A p \in session.program_ids : answers[p] \in ProgramAnswers(p)
         /\ lastOp' = api_programs(session, cfg, answers)
    /\ UNCHANGED <<cfg, session, registry, fetch>>

RedirectToIndex == Result(302, TRUE, None, 0, NoBody, "index")

validate_allowed(program_id, s) == program_id \in s.program_ids

\* /validate?program_id=x
validate(x, s, c, res) ==
    IF ~login_required(s)
    THEN Op("validate", [program_id |-> x], <<>>, RedirectToLogin)
    ELSE IF args_get_int_missing(x)
    THEN Op("validate", [program_id |-> x], <<>>, RedirectToIndex)
    ELSE IF ~validate_allowed(int_of(x), s)
    THEN Op("validate", [program_id |-> x], <<>>, RedirectToIndex)
    ELSE
      LET loaded == get_program_121(c.url121, s.token121, int_of(x), res)
      IN  [Op("validate", [program_id |-> x], loaded.calls, ApiOk)
             EXCEPT !.programs = <<Program(int_of(x), program_title(loaded, int_of(x)))>>]

Validate ==
    /\ lastOp.op = "idle"
    /\ \E x \in ProgramIdForms :
         LET probe == validate(x, session, cfg, ProgramRaised)
         IN  IF probe.calls = <<>>
             THEN lastOp' = probe
             ELSE \E res \in ProgramAnswers(int_of(x)) :
                    lastOp' = validate(x, session, cfg, res)
    /\ UNCHANGED <<cfg, session, registry, fetch>>

\* The browser receives the response.
Receive ==
    /\ lastOp.op # "idle"
    /\ fetch.pc = "idle"
    /\ lastOp' = Idle
    /\ UNCHANGED <<cfg, session, registry, fetch>>

Init ==
    /\ cfg = DEFAULT_CONFIG
    /\ session = EmptySession
    /\ lastOp = Idle
    /\ registry = <<Registration(1, "new")>>
    /\ fetch = FetchIdle

Next ==
    \/ Login
    \/ Logout
    \/ Config
    \/ SelectProgram
    \/ Update
    \/ Confirm
    \/ Resubmit
    \/ ApiRegistrations
    \/ FetchPage
    \/ ApiRegistrationsReturn
    \/ ApiPrograms
    \/ Validate
    \/ Receive

Spec == Init /\ [][Next]_vars

(***************************************************************************)
(* The fetch alone: a session logged in at urlA and authorized for program *)
(* 1, any listing, and the registry appending while the fetch runs.        *)
(***************************************************************************)
InitFetch ==
    /\ cfg = [url121 |-> "urlA"]
    /\ session = [token121 |-> "tokA", program_ids |-> {1}, selected_program_id |-> {}]
    /\ lastOp = Idle
    /\ registry \in Registries(MaxRecords)
    /\ fetch = FetchIdle

NextFetch ==
    \/ ApiRegistrations
    \/ FetchPage
    \/ RegistryAppend
    \/ ApiRegistrationsReturn
    \/ Receive

SpecFetch == InitFetch /\ [][NextFetch]_vars

(***************************************************************************)
(* Properties.                                                             *)
(***************************************************************************)
IsSubmission == lastOp.op \in {"update", "confirm"}

\* The request's programId is no member of the session's program_ids.
ProgramNotAuthorized ==
    \/ int_raises(lastOp.request.programId)
    \/ int_of(lastOp.request.programId) \notin session.program_ids

\* The request carries a programId that is a number other than 0 and a referenceId.
HasIds ==
    /\ lastOp.request.programId.t \in {"int", "digits"}
    /\ lastOp.request.programId.v # 0
    /\ lastOp.request.referenceId # ""

ReasonGiven == strip(lastOp.request.reason) # ""

Forbidden ==
    /\ lastOp.result.http = 403
    /\ lastOp.result.error = "You are not allowed to update this program."

ReasonRequired ==
    /\ lastOp.result.http = 400
    /\ lastOp.result.error = "Reason is required."

\* The reports of a failed field patch, and of a failed status transition.
PatchFailedErrors ==
    { "Failed to reach 121 API. Check url121 / network.",
      "Failed to update registration in 121",
      "Failed to reach 121 API for update.",
      "121 API update responded with" }

ValidationFailedErrors ==
    { "Failed to mark registration as validated in 121",
      "121 API status change responded with" }

Succeeded == lastOp.result = ApiOk

Kinds == [i \in DOMAIN lastOp.calls |-> lastOp.calls[i].kind]

\* The call answered, and with one of the statuses.
Accepted(call, statuses) == ~call.res.raised /\ call.res.status_code \in statuses

\* C1 (as claimed): every update submission of a logged-in session that names
\* a programId and a referenceId, with the programId not in the session's
\* program_ids, is answered Forbidden and issues no registry call.
C1_Original ==
    (IsSubmission /\ login_required(session) /\ HasIds /\ ProgramNotAuthorized)
        => (Forbidden /\ lastOp.calls = <<>>)

\* C1 (amended): an update submission whose programId is not in the session's
\* program_ids issues no registry call; when the session is logged in and the
\* request names a programId and a referenceId, it is answered Forbidden,
\* except that /api/registration/confirm answers "Reason is required." when
\* the reason is empty.
C1_ForbiddenNoCalls ==
    (IsSubmission /\ ProgramNotAuthorized)
        => /\ lastOp.calls = <<>>
           /\ ~Succeeded
           /\ (login_required(session) /\ HasIds)
                 => IF lastOp.op = "confirm" /\ ~ReasonGiven
                    THEN ReasonRequired
                    ELSE Forbidden

C1_Witness ==
    /\ IsSubmission /\ login_required(session) /\ HasIds /\ ProgramNotAuthorized
    /\ lastOp.request.programId.v \in ProgramIds
    /\ DOMAIN lastOp.request.updates # {}
    /\ ReasonGiven
    /\ cfg.url121 # ""
    /\ Forbidden

\* C2: when the field-patch call is issued and fails (a status other than
\* 200 and 204, or a transport failure), the submission reports the failed
\* patch, with the status and body answered, and the patch call is the only
\* registry call: the status-transition call is not issued.
C2_PatchFailedStops ==
    (/\ IsSubmission
     /\ lastOp.calls # <<>>
     /\ lastOp.calls[1].kind = "patch"
     /\ ~Accepted(lastOp.calls[1], {200, 204}))
        => /\ Len(lastOp.calls) = 1
           /\ ~lastOp.result.ok
           /\ lastOp.result.error \in PatchFailedErrors
           /\ ~lastOp.calls[1].res.raised
                 => /\ lastOp.result.status = lastOp.calls[1].res.status_code
                    /\ lastOp.result.details = lastOp.calls[1].res.body

C2_Witness ==
    /\ lastOp.op = "update"
    /\ Kinds = <<"patch">>
    /\ lastOp.calls[1].res.status_code = 500
    /\ lastOp.result.error = "Failed to update registration in 121"

\* C3 (as claimed): an authorized submission with no field updates and a
\* reason issues exactly one registry call, the status transition, on both
\* endpoints.
C3_Claim ==
    (/\ IsSubmission /\ login_required(session) /\ HasIds /\ ~ProgramNotAuthorized
     /\ cfg.url121 # ""
     /\ DOMAIN lastOp.request.updates = {}
     /\ ReasonGiven)
        => Kinds = <<"status">>

\* C4 (as claimed): the status transition counts 200, 202 and 204 as success
\* and reports any other status as a failed validation with that status and
\* body, on both endpoints.
C4_Claim ==
    (/\ IsSubmission
     /\ lastOp.calls # <<>>
     /\ lastOp.calls[Len(lastOp.calls)].kind = "status"
     /\ ~lastOp.calls[Len(lastOp.calls)].res.raised)
        => LET res2 == lastOp.calls[Len(lastOp.calls)].res
           IN  IF res2.status_code \in {200, 202, 204}
               THEN Succeeded
               ELSE /\ ~lastOp.result.ok
                    /\ lastOp.result.error \in ValidationFailedErrors
                    /\ lastOp.result.status = res2.status_code
                    /\ lastOp.result.details = res2.body

\* C5: a submission reports success only if its last registry call is the
\* status transition, answered 200, 202 or 204, and the only call before it,
\* if any, is the field patch, answered 200 or 204.
C5_SuccessOnlyIfPhasesSucceeded ==
    (IsSubmission /\ Succeeded)
        => /\ Kinds \in {<<"status">>, <<"patch", "status">>}
           /\ Accepted(lastOp.calls[Len(lastOp.calls)], {200, 202, 204})
           /\ Len(lastOp.calls) = 2 => Accepted(lastOp.calls[1], {200, 204})

C5_Witness ==
    /\ lastOp.op = "confirm"
    /\ Succeeded
    /\ Kinds = <<"patch", "status">>
    /\ lastOp.calls[2].res.status_code = 202

\* C6 (as claimed, for the requests that pass every other check): a
\* submission with an empty or blank reason, sent by a logged-in session for
\* a program it is authorized for, is rejected with "Reason is required." and
\* issues no registry call, on both endpoints.
C6_Claim ==
    (/\ IsSubmission /\ login_required(session) /\ HasIds /\ ~ProgramNotAuthorized
     /\ cfg.url121 # ""
     /\ ~ReasonGiven)
        => (ReasonRequired /\ lastOp.calls = <<>>)

\* What the caller can tell outcomes apart by.
Report(result) == <<result.http, result.ok, result.error, result.status>>

\* Every report either endpoint gives when the field patch itself failed.
PatchFailureReports ==
    { Report(update_calls(p, session, "urlA", res1, res2).result) :
        p \in {q \in Payloads : q.programId.t = "int" /\ q.referenceId # ""},
        res1 \in {r \in Responses("patch") : r.raised \/ r.status_code \notin {200, 204}},
        res2 \in Responses("status") }
    \cup
    { Report(confirm_calls(p, session, "urlA", res1, res2).result) :
        p \in {q \in Payloads : /\ q.programId.t = "int" /\ q.referenceId # ""
                                /\ DOMAIN q.updates # {}},
        res1 \in {r \in Responses("patch") : r.raised \/ r.status_code \notin {200, 204}},
        res2 \in Responses("status") }

\* The field patch succeeded and the status transition failed.
PartialFailure ==
    /\ IsSubmission
    /\ Kinds = <<"patch", "status">>
    /\ Accepted(lastOp.calls[1], {200, 204})
    /\ ~lastOp.result.ok

\* C7 (first part): a partial failure is reported differently from every
\* failed field patch, and no call follows the failed status transition.
C7_Distinguishable ==
    PartialFailure => Report(lastOp.result) \notin PatchFailureReports

\* C7 (as claimed): a partial failure is distinguishable from a failed patch,
\* and the resubmission with no field updates issues the status transition
\* alone.
C7_Claim ==
    /\ C7_Distinguishable
    /\ (IsSubmission /\ lastOp.retry) => Kinds = <<"status">>

\* The permission list of program p in the login answer holds every required
\* permission.
Superset(perms, p) ==
    /\ ToString(p) \in DOMAIN perms
    /\ ~perms[ToString(p)].null
    /\ REQUIRED_PERMISSIONS \subseteq perms[ToString(p)].list

LoginAnswered(st) ==
    /\ lastOp.op = "login"
    /\ lastOp.calls # <<>>
    /\ ~lastOp.calls[1].res.raised
    /\ lastOp.calls[1].res.status_code = st

LoginSucceeded == lastOp.op = "login" /\ lastOp.result.redirect = "index"

\* C8: after a successful login, a program id is among the returned (and
\* stored) program_ids iff its permission list in the login answer contains
\* all of REQUIRED_PERMISSIONS.
C8_AuthorizedIffSuperset ==
    LoginSucceeded
        => /\ LoginAnswered(201)
           /\ \A p \in 0..(MaxPid + 1) :
                 /\ p \in lastOp.returned.program_ids
                       <=> Superset(lastOp.calls[1].res.permissions, p)
                 /\ p \in session.program_ids
                       <=> Superset(lastOp.calls[1].res.permissions, p)
           /\ lastOp.returned.program_ids \subseteq 0..(MaxPid + 1)

C8_Witness ==
    /\ LoginSucceeded
    /\ \E p, q, r \in DOMAIN lastOp.calls[1].res.permissions :
          /\ lastOp.calls[1].res.permissions[p].list = REQUIRED_PERMISSIONS \cup {OtherPermission}
          /\ lastOp.calls[1].res.permissions[q].list # {}
          /\ ~(REQUIRED_PERMISSIONS \subseteq lastOp.calls[1].res.permissions[q].list)
          /\ lastOp.calls[1].res.permissions[r].list = REQUIRED_PERMISSIONS
          /\ r = "x"
    /\ Cardinality(session.program_ids) = 1

\* The registry accepted the credentials and no program has the full
\* permission set.
AcceptedWithoutPrograms(op) ==
    /\ op.op = "login"
    /\ op.calls # <<>>
    /\ ~op.calls[1].res.raised
    /\ op.calls[1].res.status_code = 201
    /\ \A p \in 0..(MaxPid + 1) : ~Superset(op.calls[1].res.permissions, p)

NoAuthorizedPrograms(op) ==
    /\ op.result.error = "You do not have access to any programs with validation permissions in CheckDroid."
    /\ op.returned.token = None

\* C9 (as claimed): when the registry accepts the credentials and no program
\* is authorized, the login yields NoAuthorizedPrograms, returns no token and
\* the session holds no token.
C9_Original ==
    AcceptedWithoutPrograms(lastOp)
        => (NoAuthorizedPrograms(lastOp) /\ session.token121 = None)

\* C9 (amended): when the registry accepts the credentials and no program is
\* authorized, the login yields NoAuthorizedPrograms, returns no token and
\* leaves the session as it was: a session that held no token holds none.
C9_NoTokenExposed ==
    [][AcceptedWithoutPrograms(lastOp')
          => (NoAuthorizedPrograms(lastOp') /\ session' = session)]_vars

C9_Witness ==
    /\ AcceptedWithoutPrograms(lastOp)
    /\ lastOp.calls[1].res.access_token_general # None
    /\ DOMAIN lastOp.calls[1].res.permissions # {}
    /\ session.token121 = None

\* C10: a login the registry answers with 400 or 401 yields the invalid
\* credentials error (not the unreachable, rejected or no-programs error, nor
\* success), and returns no token and no program id.
C10_InvalidCredentials ==
    (LoginAnswered(400) \/ LoginAnswered(401))
        => /\ lastOp.result.error = "Invalid email or password."
           /\ lastOp.result.redirect = None
           /\ lastOp.returned = NothingReturned

C10_Witness == LoginAnswered(400) /\ lastOp.result.error = "Invalid email or password."

(***************************************************************************)
(* The registrations fetch (SpecFetch).                                    *)
(***************************************************************************)
\* The registrations whose status is "new" in any case.
StatusIsNew(r) == r.status \in {"new", "NEW"}
NewOf(listing) == SelectSeq(listing, StatusIsNew)

FetchRequests == Len(fetch.calls)
LastRequest == fetch.calls[FetchRequests]

\* The listing as it was when the invocation started.
Snapshot == SubSeq(registry, 1, fetch.existing)
NoAppend == Len(registry) = fetch.existing

FetchFailedError == ApiError(502, "Failed to fetch registrations from 121")

\* C11: a page request answered with a status other than 200 is the last of
\* its invocation, which fails with an error naming that page and status;
\* the handler then answers with an error and no registration, not even
\* those matched on earlier pages.
C11_PageFailedDiscardsAll ==
    /\ \A i \in 1..FetchRequests :
         (~fetch.calls[i].res.raised /\ fetch.calls[i].res.status_code # 200)
           => /\ i = FetchRequests
              /\ fetch.pc = "raised"
              /\ fetch.exception =
                   Exception("RuntimeError", fetch.calls[i].body.page,
                             fetch.calls[i].res.status_code)
    /\ (/\ lastOp.op = "registrations"
        /\ \E i \in 1..Len(lastOp.calls) :
             ~lastOp.calls[i].res.raised /\ lastOp.calls[i].res.status_code # 200)
         => lastOp.result = FetchFailedError /\ lastOp.registrations = <<>>

\* Page 2 fails after page 1 matched a registration.
C11_Witness ==
    /\ fetch.pc = "raised"
    /\ fetch.exception = Exception("RuntimeError", 2, 404)
    /\ fetch.all_new # <<>>

\* C12: while the registry answers every page of an unchanged, non-empty
\* listing of N pages with 200 and its true metadata, the invocation has
\* collected exactly the registrations of the pages requested so far whose
\* status is "new" in any case, in listing order; it does not fail, and it
\* returns after exactly N requests with exactly those of the whole listing.
C12_ReturnsExactlyTheNew ==
    (fetch.pc # "idle" /\ fetch.honest /\ NoAppend /\ registry # <<>>)
      => /\ fetch.pc # "raised"
         /\ FetchRequests <= TotalPages(registry)
         /\ fetch.all_new =
              NewOf(SubSeq(registry, 1,
                           IF FetchRequests * PageLen < Len(registry)
                           THEN FetchRequests * PageLen ELSE Len(registry)))
         /\ fetch.pc = "returned"
              => FetchRequests = TotalPages(registry) /\ fetch.all_new = NewOf(registry)

\* Two pages, an upper-case "NEW" among the matches, a record left out.
C12_Witness ==
    /\ fetch.pc = "returned" /\ fetch.honest /\ NoAppend
    /\ FetchRequests = 2
    /\ \E i \in 1..Len(fetch.all_new) : fetch.all_new[i].status = "NEW"
    /\ Len(fetch.all_new) < Len(registry)

\* C13: when the registry appends registrations between the page requests
\* of an invocation it otherwise answers truthfully, no registration is
\* collected twice, and the invocation returns every "new" registration of
\* the listing it started with.
C13_NoSkipNoDuplicate ==
    (fetch.pc # "idle" /\ fetch.honest)
      => /\ \A i, j \in 1..Len(fetch.all_new) :
              fetch.all_new[i].id = fetch.all_new[j].id => i = j
         /\ fetch.pc = "returned"
              => \A k \in 1..Len(Snapshot) :
                   StatusIsNew(Snapshot[k])
                     => \E i \in 1..Len(fetch.all_new) : fetch.all_new[i] = Snapshot[k]

\* A registration was appended during an invocation of two pages or more.
C13_Witness ==
    /\ fetch.pc = "returned" /\ fetch.honest
    /\ Len(registry) > fetch.existing
    /\ FetchRequests >= 2
    /\ NewOf(Snapshot) # <<>>

\* C14: an invocation ends within the pages the registry can hold: one
\* that is still running has requested fewer than MaxPages pages.
C14_Claim == fetch.pc = "running" => fetch.page <= MaxPages

\* The metadata that ends the loop: currentPage (the page requested when
\* missing) >= totalPages (1 when missing).
MetaEnds(meta, page) == meta_get(meta.currentPage, page) >= meta_get(meta.totalPages, 1)

\* C19: the i-th request of an invocation is for page i, the next one for
\* the page after the last, and the invocation has returned as soon as a
\* page is answered with 200 and metadata with currentPage >= totalPages.
C19_SequentialPages ==
    /\ \A i \in 1..FetchRequests : fetch.calls[i].body.page = i
    /\ fetch.pc = "running" => fetch.page = FetchRequests + 1
    /\ (/\ FetchRequests > 0
        /\ ~fetch.last.raised
        /\ fetch.last.status_code = 200
        /\ MetaEnds(fetch.last.meta, LastRequest.body.page))
         => fetch.pc = "returned"

\* The second page ends the invocation with no totalPages in its metadata.
C19_Witness ==
    /\ fetch.pc = "returned"
    /\ FetchRequests = 2
    /\ fetch.last.meta.totalPages = Missing

(***************************************************************************)
(* Sessions and calls (Spec).                                              *)
(***************************************************************************)
\* C15: the selected program is unset or a program the session is
\* authorized for.
C15_Claim == session.selected_program_id \subseteq session.program_ids

\* C16: no field-patch call carries a field whose value is null.
C16_Claim ==
    \A i \in 1..Len(lastOp.calls) :
      lastOp.calls[i].kind = "patch"
        => \A k \in DOMAIN lastOp.calls[i].body.data : lastOp.calls[i].body.data[k] # None

\* The error outcomes a transport failure is converted to.
UnreachableErrors ==
    {"Unable to reach login server. Please try again later.",
     "Failed to reach 121 API. Check url121 / network.",
     "Data updated but failed to validate status in 121.",
     "Failed to reach 121 API for update.",
     "Failed to reach 121 API for status update."}

\* C17: a call that fails at transport level ends its operation with a
\* classified error: the login and the update workflow report the registry
\* unreachable, the fetch fails with a page failure, never with the
\* exception of the HTTP library.
C17_Claim ==
    /\ (/\ lastOp.op \in {"login", "update", "confirm"}
        /\ \E i \in 1..Len(lastOp.calls) : lastOp.calls[i].res.raised)
         => lastOp.result.error \in UnreachableErrors
    /\ fetch.pc = "raised" => fetch.exception.type = "RuntimeError"

ConfigurationErrors ==
    {"System not configured: url121 is missing.",
     "121 configuration or session token missing."}

\* The responses of /api/registrations that precede the fetch.
RegistrationsRejected ==
    {RedirectToLogin, ApiError(400, "Missing program_id"),
     ApiError(403, "Not allowed for this program"), Pending}

\* C18: with an empty base URL no call is made, and a login, an update
\* workflow or a fetch that its handler let through fails with a
\* configuration error.
C18_Claim ==
    cfg.url121 = ""
      => /\ lastOp.calls = <<>> /\ fetch.calls = <<>>
         /\ (lastOp.op = "login" /\ login_form_ok(lastOp.request))
              => lastOp.result.error \in ConfigurationErrors
         /\ (lastOp.op \in {"update", "confirm"} /\ lastOp.result.http \notin {302, 400, 403})
              => lastOp.result.error \in ConfigurationErrors
         /\ (lastOp.op = "registrations" /\ lastOp.result \notin RegistrationsRejected)
              => lastOp.result.error \in ConfigurationErrors

\* C20: every call but the login is for a program the session is
\* authorized for: the lookups, patches and status transitions of the
\* request last handled and the page requests of the fetch in progress.
C20_CallsTargetAuthorizedPrograms ==
    /\ \A i \in 1..Len(lastOp.calls) :
         lastOp.calls[i].kind # "login"
           => lastOp.calls[i].program_id \in session.program_ids
    /\ fetch.pc # "idle" => fetch.program_id \in session.program_ids
    /\ \A i \in 1..FetchRequests : fetch.calls[i].program_id \in session.program_ids

\* A page request for the one program of a session, others existing.
C20_Witness ==
    /\ lastOp.op = "registrations"
    /\ lastOp.calls # <<>>
    /\ session.program_ids = {2}


(***************************************************************************)
(* The login gate, the login and the token (Spec).                         *)
(***************************************************************************)
ProtectedOps ==
    {"registrations", "programs", "select-program", "validate", "update", "confirm"}

\* The calls of the request last handled and of the fetch in progress that
\* are not the credential exchange of a login.
CallsAfterLogin ==
    {lastOp.calls[i] : i \in {j \in 1..Len(lastOp.calls) : lastOp.calls[j].kind # "login"}}
    \cup {fetch.calls[i] : i \in 1..Len(fetch.calls)}

\* C21: while the session holds no token (before a login, after a logout),
\* a request to a protected operation is answered with the redirect to the
\* login page, no fetch is in progress and no call but the credential
\* exchange of a login has been issued; calls are issued with a token only.
C21_NoCallWithoutToken ==
    /\ session.token121 = None
         => /\ CallsAfterLogin = {}
            /\ fetch.pc = "idle"
            /\ lastOp.op \in ProtectedOps => lastOp.result = RedirectToLogin
    /\ \A c \in CallsAfterLogin : c.token # None

\* A request for the registrations of a program is redirected, no token held.
C21_Witness ==
    /\ lastOp.op = "registrations"
    /\ lastOp.request.program_id.v = 1
    /\ session.token121 = None
    /\ lastOp.result = RedirectToLogin

\* C22: a login reported as successful returned a token, and the session
\* it leaves passes the login gate.
C22_Claim ==
    LoginSucceeded => (lastOp.returned.token # None /\ login_required(session))

LoginFailed(op) == op.op = "login" /\ op.result.error # None

\* C23: a login that ends with an error leaves the session as it was:
\* token, program ids and selected program.
C23_FailedLoginKeepsSession ==
    [][LoginFailed(lastOp') => session' = session]_vars

\* A login is refused by the registry in a session that is logged in and
\* has selected a program.
C23_Witness ==
    /\ LoginFailed(lastOp)
    /\ lastOp.calls # <<>>
    /\ session.token121 # None
    /\ session.selected_program_id # {}

\* C24: every call that carries a token goes to the base URL whose
\* registry issued that token.
C24_Claim == \A c \in CallsAfterLogin : c.token # None => c.token = TokenOf(c.base_url)

====
